---- MODULE Spec2Model ----
(***************************************************************************)
(* A model of btfd.py: the multi-version documentation builder.            *)
(*                                                                         *)
(* The state is the base directory on disk (the trunk repository with its  *)
(* remote-tracking refs and local heads, the per-version checkouts and     *)
(* virtualenvs, the build outputs, the published tree html/en/* and        *)
(* html/versions.js), the network remote, and the position of the running  *)
(* command.  Remote ref names are sequences of characters, so that the     *)
(* regular expression of remote_branches is modelled by what it matches.   *)
(***************************************************************************)
EXTENDS Integers, Sequences, FiniteSets, TLC

(***************************************************************************)
(* Bounds of the model.                                                    *)
(***************************************************************************)
MaxRuns == 2
MaxFiles == 2
MaxSelector == 1
MaxRefs == 3
MaxDiscoveryRefs == 4
MaxPushes == 1

(***************************************************************************)
(* Remote ref names.                                                       *)
(***************************************************************************)
OriginMaster == <<"o","r","i","g","i","n","/","m","a","s","t","e","r">>
OriginStablePrefix == <<"o","r","i","g","i","n","/","s","t","a","b","l","e","/">>
OriginHead == <<"o","r","i","g","i","n","/","H","E","A","D">>

Ref_0_3 == OriginStablePrefix \o <<"0",".","3",".","x">>
Ref_0_4 == OriginStablePrefix \o <<"0",".","4",".","x">>
Ref_1_2 == OriginStablePrefix \o <<"1",".","2",".","x">>
Ref_1_9 == OriginStablePrefix \o <<"1",".","9",".","x">>
Ref_1_10 == OriginStablePrefix \o <<"1",".","1","0",".","x">>
Ref_1_02 == OriginStablePrefix \o <<"1",".","0","2",".","x">>
Ref_1_2dash == OriginStablePrefix \o <<"1",".","2","-","x">>
Ref_1_x == OriginStablePrefix \o <<"1",".","x">>
Ref_1_9bare == OriginStablePrefix \o <<"1",".","9">>

\* The refs the network remote of the update runs may hold.
RefPool == {OriginMaster, Ref_0_3, Ref_0_4, Ref_1_2, Ref_1_10}

\* The refs discovery is exercised on: well-formed, malformed and near misses.
DiscoveryPool ==
    {OriginMaster, OriginHead, Ref_0_3, Ref_1_2, Ref_1_9, Ref_1_10,
     Ref_1_02, Ref_1_2dash, Ref_1_x, Ref_1_9bare}

(***************************************************************************)
(* Integers and strings.                                                   *)
(***************************************************************************)
DigitChars == <<"0","1","2","3","4","5","6","7","8","9">>

IsDigit(c) == \E d \in 1..10 : DigitChars[d] = c

DigitValue(c) == (CHOOSE d \in 1..10 : DigitChars[d] = c) - 1

AllDigits(s) == Len(s) > 0 /\ \A k \in 1..Len(s) : IsDigit(s[k])

\* int(): the number a non-empty string of decimal digits denotes.
RECURSIVE ParseInt(_)
ParseInt(s) ==
    IF Len(s) = 0 THEN 0
    ELSE 10 * ParseInt(SubSeq(s, 1, Len(s) - 1)) + DigitValue(s[Len(s)])

\* '%d' % n
RECURSIVE FormatInt(_)
FormatInt(n) ==
    IF n < 10 THEN DigitChars[n + 1]
    ELSE FormatInt(n \div 10) \o DigitChars[(n % 10) + 1]

\* Python's comparison of (major, minor) tuples.
TupleLess(a, b) == a[1] < b[1] \/ (a[1] = b[1] /\ a[2] < b[2])

TupleGeq(a, b) == ~TupleLess(a, b)

(***************************************************************************)
(* The branch classes.  A branch is a record; MasterBranch has no version. *)
(***************************************************************************)
NoVersion == <<>>

MasterBranch(remote_ref) ==
    [kind |-> "master", version |-> NoVersion, remote_head |-> remote_ref]

VersionBranch__init__(remote_ref, major_version, minor_version) ==
    [kind |-> "version",
     version |-> <<ParseInt(major_version), ParseInt(minor_version)>>,
     remote_head |-> remote_ref]

version_string(branch) ==
    IF branch.kind = "master" THEN "master"
    ELSE FormatInt(branch.version[1]) \o "." \o FormatInt(branch.version[2])

local_name(branch) ==
    "stable/" \o FormatInt(branch.version[1]) \o "." \o FormatInt(branch.version[2]) \o ".x"

target_dir_name(branch) ==
    IF branch.kind = "master" THEN "latest" ELSE "v" \o version_string(branch)

MinBuildVersion == <<0, 4>>

\* The floor taken as exclusive.
should_build_above_floor(branch) ==
    IF branch.kind = "master" THEN TRUE
    ELSE TupleLess(MinBuildVersion, branch.version)

should_build(branch) ==
    IF branch.kind = "master" THEN TRUE
    ELSE TupleGeq(branch.version, MinBuildVersion)

\* Branch.path and Branch.virtualenv_path, relative to the base directory.
path(branch) == version_string(branch)

virtualenv_path(branch) == "venv/" \o version_string(branch)

(***************************************************************************)
(* Discovery: re.match(r'^origin/stable/(\d+)\.(\d+).x$', name).           *)
(* After the prefix come the digits of the major version up to the first   *)
(* non-digit, which must be a dot; the name ends with any one character    *)
(* followed by 'x'; what lies between is the minor version, all digits.    *)
(***************************************************************************)
NoMatch == <<>>

\* The length of the longest prefix of s made of digits.
RECURSIVE DigitPrefixLen(_)
DigitPrefixLen(s) ==
    IF Len(s) = 0 \/ ~IsDigit(s[1]) THEN 0
    ELSE 1 + DigitPrefixLen(Tail(s))

\* <<group(1), group(2)>> when the name matches, NoMatch otherwise.
StableRefMatch(name) ==
    LET p == Len(OriginStablePrefix)
        n == Len(name)
    IN  IF n < p + 5 \/ SubSeq(name, 1, p) # OriginStablePrefix THEN NoMatch
        ELSE LET rest == SubSeq(name, p + 1, n)
                 m == Len(rest)
                 k == DigitPrefixLen(rest)
                 major == SubSeq(rest, 1, k)
                 minor == SubSeq(rest, k + 2, m - 2)
             IN  IF /\ k >= 1
                    /\ k + 1 <= m - 2
                    /\ rest[k + 1] = "."
                    /\ AllDigits(minor)
                    /\ rest[m] = "x"
                 THEN <<major, minor>>
                 ELSE NoMatch

\* The loop of remote_branches over the refs, in the order the remote lists them.
RECURSIVE VersionBranchesOf(_)
VersionBranchesOf(refs) ==
    IF Len(refs) = 0 THEN <<>>
    ELSE LET name == Head(refs)
             match == StableRefMatch(name)
         IN  IF name # OriginMaster /\ match # NoMatch
             THEN <<VersionBranch__init__(name, match[1], match[2])>>
                      \o VersionBranchesOf(Tail(refs))
             ELSE VersionBranchesOf(Tail(refs))

\* The characters of '%d.%d' % version as numbers in the order of their codes
\* ('.' comes before every digit).
RECURSIVE DigitsOf(_)
DigitsOf(n) == IF n < 10 THEN <<n>> ELSE DigitsOf(n \div 10) \o <<n % 10>>

VersionChars(v) == DigitsOf(v[1]) \o <<-1>> \o DigitsOf(v[2])

RECURSIVE LexLess(_, _)
LexLess(s, t) ==
    IF Len(t) = 0 THEN FALSE
    ELSE IF Len(s) = 0 THEN TRUE
    ELSE IF Head(s) # Head(t) THEN Head(s) < Head(t)
    ELSE LexLess(Tail(s), Tail(t))

\* The sort with the version strings as the key.
SortKeyLessLexical(a, b) == LexLess(VersionChars(a.version), VersionChars(b.version))

\* key=lambda branch: branch.version
SortKeyLess(a, b) == TupleLess(a.version, b.version)

\* list.sort is stable: a branch goes after every branch whose key is not greater.
RECURSIVE InsertSorted(_, _)
InsertSorted(sorted, b) ==
    IF Len(sorted) = 0 THEN <<b>>
    ELSE IF SortKeyLess(b, Head(sorted)) THEN <<b>> \o sorted
    ELSE <<Head(sorted)>> \o InsertSorted(Tail(sorted), b)

RECURSIVE SortBranches(_)
SortBranches(bs) ==
    IF Len(bs) = 0 THEN <<>>
    ELSE InsertSorted(SortBranches(SubSeq(bs, 1, Len(bs) - 1)), bs[Len(bs)])

\* The list returned without the check for the trunk.
HasMasterUnchecked(refs) == TRUE

\* master_branch is not None after the loop: some ref is named origin/master.
HasMaster(refs) == \E k \in 1..Len(refs) : refs[k] = OriginMaster

\* Environment.remote_branches; defined when HasMaster(refs), raises otherwise.
remote_branches(refs) ==
    SortBranches(VersionBranchesOf(refs)) \o <<MasterBranch(OriginMaster)>>


\* remote_branches[-1] taken for the stable branch.
stable_branch_last(ts) == Len(ts)

\* Environment.stable_branch is remote_branches[-2] and Environment.master_branch
\* is remote_branches[-1], as positions in the list; [-2] raises IndexError on a
\* list of one element.
stable_branch(ts) == Len(ts) - 1

stable_branch_raises(ts) == Len(ts) < 2

master_branch(ts) == Len(ts)

(***************************************************************************)
(* The state.                                                              *)
(***************************************************************************)
VARIABLES
    origin,       \* the ref names the network remote holds
    baseExists,   \* whether base_path exists
    remoteRefs,   \* the remote-tracking refs of the trunk repository
    heads,        \* the local heads of the trunk repository
    dirs,         \* the directories under base_path: "master", checkouts, virtualenvs, "html"
    built,        \* checkout path -> the files of its docs/_build/html
    html,         \* directory name under html/en -> its files
    manifest,     \* the list written to html/versions.js, or NoFile
    pc,           \* the position of the running command
    branches,     \* the selector of the running update: None or a list of tokens
    targets,      \* remote_branches of the running update (a cached property)
    idx,          \* the position in targets the loop of update has reached
    stableCache,  \* stable_branch of the running update, once evaluated
    failure,      \* what made the running command raise, or "none"
    steps,        \* the pipeline steps completed for the target being processed
    processed,    \* the positions in targets whose pipeline the running update began
    runs,         \* update commands started
    cloneCount,   \* clones of the trunk from the source location
    originCommit, \* ref name -> the commit the network remote's branch is at
    refCommit,    \* remote-tracking ref of the trunk repository -> its commit
    headCommit,   \* local head of the trunk repository -> its commit
    checkoutCommit, \* version checkout path -> the commit it is at
    clones,       \* version checkout path -> the clones made of it
    headsCreated, \* local head name -> the times create_head made it
    copyFailed    \* whether a copy_docs_dir has raised part-way

\* The commits of the repositories on disk.
commitVars == <<refCommit, headCommit, checkoutCommit>>

fsVars ==
    <<baseExists, remoteRefs, heads, dirs, built, html, manifest, commitVars>>

runVars == <<pc, branches, targets, idx, stableCache, failure, steps, processed>>

\* What the commands have done so far.
histVars == <<runs, cloneCount, clones, headsCreated, copyFailed>>

vars == <<origin, originCommit, fsVars, runVars, histVars>>

\* branches=None, and branches given as a list (read only through "in").
None == [given |-> FALSE, tokens |-> {}]

SelectorOf(tokens) == [given |-> TRUE, tokens |-> tokens]

\* html/versions.js: absent, or holding one list.
NoFile == <<>>

FileWith(list) == <<list>>

Unresolved == 0

Files == 1..MaxFiles

\* What "make html" may leave in docs/_build/html.
BuildOutputs == {1..k : k \in 1..MaxFiles}

\* The tokens a selector may hold: version strings (the trunk's is 'master') and
\* the two aliases.
SelectorTokens == {"0.3", "0.4", "1.2", "1.10", "master", "stable", "latest"}

Selectors ==
    {None} \cup {SelectorOf(s) : s \in {t \in SUBSET SelectorTokens :
                                           Cardinality(t) \in 1..MaxSelector}}

\* No command is running.
Quiescent == pc = "idle"

\* The positions a command ends in: update returned or raised; create skipped the
\* initialisation, cloned the trunk, or raised in the clone.
Finished == pc \in {"done", "failed", "init_skipped", "init_cloned", "init_failed"}

\* An exception swallowed around the loop of update: on to the manifest.
AbortSwallowed == "manifest"

\* An exception is caught nowhere: it ends the command.
Abort == "failed"

Init ==
    /\ origin \in {o \in SUBSET RefPool : Cardinality(o) <= MaxRefs}
    /\ baseExists \in BOOLEAN
    /\ remoteRefs = {}
    /\ heads = {}
    /\ dirs = {}
    /\ built = <<>>
    /\ html = <<>>
    /\ manifest = NoFile
    /\ pc = "idle"
    /\ branches = None
    /\ targets = <<>>
    /\ idx = 0
    /\ stableCache = Unresolved
    /\ failure = "none"
    /\ steps = <<>>
    /\ processed = <<>>
    /\ runs = 0
    /\ cloneCount = 0
    /\ originCommit = [r \in RefPool |-> 0]
    /\ refCommit = <<>>
    /\ headCommit = <<>>
    /\ checkoutCommit = <<>>
    /\ clones = <<>>
    /\ headsCreated = <<>>
    /\ copyFailed = FALSE

\* The run state of a command that starts.
NewCommand(position) ==
    /\ pc' = position
    /\ targets' = <<>>
    /\ idx' = 0
    /\ stableCache' = Unresolved
    /\ failure' = "none"
    /\ steps' = <<>>
    /\ processed' = <<>>

(***************************************************************************)
(* The network remote gains a branch (between commands).                   *)
(***************************************************************************)
AddRemoteRef ==
    /\ Quiescent
    /\ Cardinality(origin) < MaxRefs
    /\ \E r \in RefPool \ origin : origin' = origin \cup {r}
    /\ UNCHANGED <<originCommit, fsVars, runVars, histVars>>

\* The commits pushed to the branches of the network remote so far.
RECURSIVE SumOver(_, _)
SumOver(f, S) ==
    IF S = {} THEN 0
    ELSE LET x == CHOOSE y \in S : TRUE IN f[x] + SumOver(f, S \ {x})

\* A branch of the network remote gains a commit (between commands).
PushCommit ==
    /\ Quiescent
    /\ SumOver(originCommit, DOMAIN originCommit) < MaxPushes
    /\ \E r \in origin :
          originCommit' = [originCommit EXCEPT ![r] = originCommit[r] + 1]
    /\ UNCHANGED <<origin, fsVars, runVars, histVars>>

(***************************************************************************)
(* Environment.create (the init command).                                  *)
(***************************************************************************)
\* The initialisation never skipped.
create_never_skips == FALSE

\* os.path.exists(env.base_path): skip the initialisation.
create_skips == baseExists

Create ==
    /\ Quiescent
    /\ UNCHANGED <<origin, originCommit, runs, built, html, manifest, branches,
                   targets, idx, stableCache, failure, steps, processed,
                   checkoutCommit, clones, headsCreated, copyFailed>>
    /\ IF create_skips
       THEN /\ pc' = "init_skipped"
            /\ UNCHANGED <<baseExists, remoteRefs, heads, dirs, cloneCount, refCommit,
                           headCommit>>
       ELSE /\ baseExists' = TRUE
            /\ cloneCount' = cloneCount + 1
            /\ \/ /\ pc' = "init_cloned"
                  /\ dirs' = dirs \cup {"master"}
                  /\ remoteRefs' = origin
                  /\ refCommit' = [r \in origin |-> originCommit[r]]
                  /\ heads' = IF OriginMaster \in origin THEN {"master"} ELSE {}
                  /\ headCommit' =
                        [h \in (IF OriginMaster \in origin THEN {"master"} ELSE {})
                            |-> originCommit[OriginMaster]]
               \/ /\ pc' = "init_failed"
                  /\ UNCHANGED <<remoteRefs, heads, dirs, refCommit, headCommit>>

\* The process of the command exits.
Exit ==
    /\ Finished
    /\ NewCommand("idle")
    /\ branches' = None
    /\ UNCHANGED <<origin, originCommit, fsVars, histVars>>

(***************************************************************************)
(* Environment.update (the build and update commands).                     *)
(***************************************************************************)
CurrentBranch == targets[idx]

\* The orders in which the remote may list a set of refs.
Orderings(S) ==
    {f \in [1..Cardinality(S) -> S] :
        \A i, j \in 1..Cardinality(S) : i # j => f[i] # f[j]}

\* The command starts: Environment(args.path), then self.master_repo.
UpdateStart ==
    /\ Quiescent
    /\ runs < MaxRuns
    /\ runs' = runs + 1
    /\ \E sel \in Selectors : branches' = sel
    /\ NewCommand("pull")
    /\ UNCHANGED <<origin, originCommit, fsVars, cloneCount, clones, headsCreated,
                   copyFailed>>

\* Repo(self.master_path) raises when there is no trunk repository.
OpenRepoFails ==
    /\ pc = "pull"
    /\ "master" \notin dirs
    /\ pc' = Abort
    /\ failure' = "NoSuchPathError"
    /\ UNCHANGED <<origin, originCommit, fsVars, branches, targets, idx, stableCache,
                   steps, processed, histVars>>

\* self.master_repo.remote().pull(): the fetch adds the remote's refs, pruning
\* none, and moves each to the remote's commit; the merge moves the branch that is
\* checked out (master) to its upstream, and no other local head.
PullMaster ==
    /\ pc = "pull"
    /\ "master" \in dirs
    /\ remoteRefs' = remoteRefs \cup origin
    /\ refCommit' = [r \in remoteRefs \cup origin |->
                        IF r \in origin THEN originCommit[r] ELSE refCommit[r]]
    /\ headCommit' = [h \in heads |->
                         IF h = "master" /\ OriginMaster \in origin
                         THEN originCommit[OriginMaster] ELSE headCommit[h]]
    /\ pc' = "discover"
    /\ UNCHANGED <<origin, originCommit, baseExists, heads, dirs, built, html,
                   manifest, checkoutCommit, branches, targets, idx, stableCache,
                   failure, steps, processed, histVars>>

\* The first use of self.remote_branches.
Discover ==
    /\ pc = "discover"
    /\ \E refs \in Orderings(remoteRefs) :
          IF HasMaster(refs)
          THEN /\ targets' = remote_branches(refs)
               /\ idx' = 1
               /\ pc' = "loop"
               /\ UNCHANGED failure
          ELSE /\ pc' = Abort
               /\ failure' = "no master branch found"
               /\ UNCHANGED <<targets, idx>>
    /\ UNCHANGED <<origin, originCommit, fsVars, branches, stableCache, steps,
                   processed, histVars>>

\* The chain with 'stable' compared to the last branch of the list.
SelectionStableIsLast(sel, ts, i) ==
    IF sel = None THEN "build"
    ELSE IF version_string(ts[i]) \in sel.tokens THEN "build"
    ELSE IF "stable" \in sel.tokens /\ i = Len(ts) THEN "build"
    ELSE IF "latest" \in sel.tokens /\ i = Len(ts) THEN "build"
    ELSE "skip"

\* The if/elif chain of the loop: "build", "skip", or "IndexError" when the chain
\* evaluates self.stable_branch on a list that holds the trunk alone.
Selection(sel, ts, i) ==
    IF sel = None THEN "build"
    ELSE IF version_string(ts[i]) \in sel.tokens THEN "build"
    ELSE IF "stable" \in sel.tokens /\ stable_branch_raises(ts) THEN "IndexError"
    ELSE IF "stable" \in sel.tokens /\ i = stable_branch(ts) THEN "build"
    ELSE IF "latest" \in sel.tokens /\ i = master_branch(ts) THEN "build"
    ELSE "skip"

\* Whether the chain evaluates self.stable_branch for the branch at i.
SelectionReadsStable(sel, ts, i) ==
    sel # None /\ version_string(ts[i]) \notin sel.tokens /\ "stable" \in sel.tokens

\* The step a branch's update starts with: VersionBranch.update or Branch.update.
FirstStep(branch) == IF branch.kind = "version" THEN "tracking" ELSE "gate"

\* One iteration of "for branch in self.remote_branches", up to branch.update.
SelectTarget ==
    /\ pc = "loop"
    /\ idx <= Len(targets)
    /\ LET outcome == Selection(branches, targets, idx)
       IN  /\ stableCache' =
                 IF SelectionReadsStable(branches, targets, idx) /\ outcome # "IndexError"
                 THEN stable_branch(targets) ELSE stableCache
           /\ CASE outcome = "build" ->
                     /\ pc' = FirstStep(CurrentBranch)
                     /\ processed' = Append(processed, idx)
                     /\ steps' = <<>>
                     /\ UNCHANGED <<idx, failure>>
                [] outcome = "skip" ->
                     /\ idx' = idx + 1
                     /\ UNCHANGED <<pc, processed, steps, failure>>
                [] outcome = "IndexError" ->
                     /\ pc' = Abort
                     /\ failure' = "IndexError"
                     /\ UNCHANGED <<idx, processed, steps>>
    /\ UNCHANGED <<origin, originCommit, fsVars, branches, targets, histVars>>

\* The loop is over.
LoopEnds ==
    /\ pc = "loop"
    /\ idx > Len(targets)
    /\ pc' = "manifest"
    /\ UNCHANGED <<origin, originCommit, fsVars, branches, targets, idx, stableCache,
                   failure, steps, processed, histVars>>


(***************************************************************************)
(* VersionBranch.update and Branch.update: the pipeline of one branch.     *)
(***************************************************************************)
\* The order with the builder invoked before the install.
StepAfterBuildFirst(step) ==
    CASE step = "tracking" -> "sync"
      [] step = "sync" -> "gate"
      [] step = "gate" -> "venv"
      [] step = "venv" -> "build"
      [] step = "build" -> "install"
      [] step = "install" -> "publish"
      [] step = "publish" -> "alias"

\* The order of the statements of VersionBranch.update and Branch.update.
StepAfter(step) ==
    CASE step = "tracking" -> "sync"
      [] step = "sync" -> "gate"
      [] step = "gate" -> "venv"
      [] step = "venv" -> "install"
      [] step = "install" -> "build"
      [] step = "build" -> "publish"
      [] step = "publish" -> "alias"

branch_name_exists_in_master_repo(name) == name \in heads

\* branch.update returned: the loop goes on to the next branch.
BranchDone ==
    /\ pc' = "loop"
    /\ idx' = idx + 1

\* f with n counted once more.
Counted(f, n) ==
    [x \in DOMAIN f \cup {n} |->
        IF x = n THEN (IF n \in DOMAIN f THEN f[n] ELSE 0) + 1 ELSE f[x]]

\* create_head(local_name, remote_head) and set_tracking_branch, unless a head of
\* that name exists: the new head is at the commit of the remote-tracking ref.
EnsureLocalTracking ==
    /\ pc = "tracking"
    /\ IF branch_name_exists_in_master_repo(local_name(CurrentBranch))
       THEN UNCHANGED <<heads, headCommit, headsCreated>>
       ELSE /\ heads' = heads \cup {local_name(CurrentBranch)}
            /\ headCommit' =
                  [h \in heads \cup {local_name(CurrentBranch)} |->
                      IF h = local_name(CurrentBranch)
                      THEN refCommit[CurrentBranch.remote_head] ELSE headCommit[h]]
            /\ headsCreated' = Counted(headsCreated, local_name(CurrentBranch))
    /\ steps' = Append(steps, "EnsureLocalTracking")
    /\ pc' = StepAfter("tracking")
    /\ UNCHANGED <<origin, originCommit, baseExists, remoteRefs, dirs, built, html,
                   manifest, refCommit, checkoutCommit, branches, targets, idx,
                   stableCache, failure, processed, runs, cloneCount, clones,
                   copyFailed>>

\* update_repo: pull in the checkout when it exists, clone it from the trunk
\* repository otherwise.
update_repo(ds, branch) ==
    IF path(branch) \in ds THEN ds ELSE ds \cup {path(branch)}

\* The clone made whatever the directory holds.
update_repo_always_clones(ds, branch) == TRUE

\* not os.path.exists(self.path): update_repo clones; otherwise it pulls.
update_repo_clones(ds, branch) == path(branch) \notin ds

\* The commit the checkout is left at.  The clone is made of the trunk repository
\* (self.env.master_repo.clone) at the branch local_name, and the remote of the
\* checkout is therefore the trunk repository, whose branches are its local
\* heads: the pull brings the checkout to the trunk repository's head local_name.
checkout_source(hc, branch) == hc[local_name(branch)]

SyncCheckout ==
    /\ pc = "sync"
    /\ dirs' = update_repo(dirs, CurrentBranch)
    /\ clones' = IF update_repo_clones(dirs, CurrentBranch)
                 THEN Counted(clones, path(CurrentBranch)) ELSE clones
    /\ checkoutCommit' =
          [c \in DOMAIN checkoutCommit \cup {path(CurrentBranch)} |->
              IF c = path(CurrentBranch) THEN checkout_source(headCommit, CurrentBranch)
              ELSE checkoutCommit[c]]
    /\ steps' = Append(steps, "SyncCheckout")
    /\ pc' = StepAfter("sync")
    /\ UNCHANGED <<origin, originCommit, baseExists, remoteRefs, heads, built, html,
                   manifest, refCommit, headCommit, branches, targets, idx,
                   stableCache, failure, processed, runs, cloneCount, headsCreated,
                   copyFailed>>

\* if not self.should_build(): return
GateOnShouldBuild ==
    /\ pc = "gate"
    /\ steps' = Append(steps, "GateOnShouldBuild")
    /\ IF should_build(CurrentBranch)
       THEN pc' = StepAfter("gate") /\ UNCHANGED idx
       ELSE BranchDone
    /\ UNCHANGED <<origin, originCommit, fsVars, branches, targets, stableCache,
                   failure, processed, histVars>>

\* virtualenv, unless the directory exists.
EnsureIsolatedEnvironment ==
    /\ pc = "venv"
    /\ dirs' = dirs \cup {virtualenv_path(CurrentBranch)}
    /\ steps' = Append(steps, "EnsureIsolatedEnvironment")
    /\ pc' = StepAfter("venv")
    /\ UNCHANGED <<origin, originCommit, baseExists, remoteRefs, heads, commitVars,
                   built, html, manifest, branches, targets, idx, stableCache,
                   failure, processed, histVars>>

\* self.install(): the pip commands.
InstallDependencies ==
    /\ pc = "install"
    /\ steps' = Append(steps, "InstallDependencies")
    /\ pc' = StepAfter("install")
    /\ UNCHANGED <<origin, originCommit, fsVars, branches, targets, idx, stableCache,
                   failure, processed, histVars>>

\* make html: docs/_build/html of the checkout holds what the builder left.
InvokeBuilder ==
    /\ pc = "build"
    /\ \E out \in BuildOutputs :
          built' = [p \in DOMAIN built \cup {path(CurrentBranch)} |->
                       IF p = path(CurrentBranch) THEN out ELSE built[p]]
    /\ steps' = Append(steps, "InvokeBuilder")
    /\ pc' = StepAfter("build")
    /\ UNCHANGED <<origin, originCommit, baseExists, remoteRefs, heads, commitVars,
                   dirs, html, manifest, branches, targets, idx, stableCache, failure,
                   processed, histVars>>

\* The tree of directories h with directory d holding the files fs.
WithDir(h, d, fs) == [n \in DOMAIN h \cup {d} |-> IF n = d THEN fs ELSE h[n]]

WithoutDir(h, d) == [n \in DOMAIN h \ {d} |-> h[n]]

\* The copy without the rmtree, into the directory as it stands.
copy_docs_dir_merging(h, destination, source) ==
    WithDir(h, destination,
            (IF destination \in DOMAIN h THEN h[destination] ELSE {}) \cup source)

\* Branch.copy_docs_dir: rmtree the destination when it exists, then copytree.
copy_docs_dir(h, destination, source) ==
    WithDir(IF destination \in DOMAIN h THEN WithoutDir(h, destination) ELSE h,
            destination, source)

\* What a copy_docs_dir that raises part-way may leave: rmtree raised and the
\* destination holds some of its old files; or the destination is removed; or
\* copytree raised and the destination holds some of the new files.
interrupted_copy(h, destination, source) ==
    (IF destination \in DOMAIN h
     THEN {WithDir(h, destination, fs) : fs \in SUBSET h[destination]}
     ELSE {})
        \cup {WithoutDir(h, destination)}
        \cup {WithDir(h, destination, fs) : fs \in (SUBSET source) \ {source}}

\* os.makedirs(html_base_path), then copy_docs_dir to html/en/<target_dir_name>.
PublishOutput ==
    /\ pc = "publish"
    /\ dirs' = dirs \cup {"html"}
    /\ html' = copy_docs_dir(html, target_dir_name(CurrentBranch),
                             built[path(CurrentBranch)])
    /\ steps' = Append(steps, "PublishOutput")
    /\ pc' = StepAfter("publish")
    /\ UNCHANGED <<origin, originCommit, baseExists, remoteRefs, heads, commitVars,
                   built, manifest, branches, targets, idx, stableCache, failure,
                   processed, histVars>>

PublishOutputFails ==
    /\ pc = "publish"
    /\ dirs' = dirs \cup {"html"}
    /\ html' \in interrupted_copy(html, target_dir_name(CurrentBranch),
                                  built[path(CurrentBranch)])
    /\ pc' = Abort
    /\ failure' = "ExternalCommandFailure"
    /\ copyFailed' = TRUE
    /\ UNCHANGED <<origin, originCommit, baseExists, remoteRefs, heads, commitVars,
                   built, manifest, branches, targets, idx, stableCache, steps,
                   processed, runs, cloneCount, clones, headsCreated>>

\* if self == self.env.stable_branch: copy_docs_dir to html/en/stable.
PublishStable ==
    /\ pc = "alias"
    /\ ~stable_branch_raises(targets)
    /\ stableCache' = stable_branch(targets)
    /\ html' = IF idx = stable_branch(targets)
               THEN copy_docs_dir(html, "stable", built[path(CurrentBranch)])
               ELSE html
    /\ BranchDone
    /\ UNCHANGED <<origin, originCommit, baseExists, remoteRefs, heads, commitVars,
                   dirs, built, manifest, branches, targets, failure, steps,
                   processed, histVars>>

PublishStableFails ==
    /\ pc = "alias"
    /\ ~stable_branch_raises(targets)
    /\ idx = stable_branch(targets)
    /\ stableCache' = stable_branch(targets)
    /\ html' \in interrupted_copy(html, "stable", built[path(CurrentBranch)])
    /\ pc' = Abort
    /\ failure' = "ExternalCommandFailure"
    /\ copyFailed' = TRUE
    /\ UNCHANGED <<origin, originCommit, baseExists, remoteRefs, heads, commitVars,
                   dirs, built, manifest, branches, targets, idx, steps, processed,
                   runs, cloneCount, clones, headsCreated>>

\* self.env.stable_branch raises IndexError: the trunk is the only branch.
StableBranchRaises ==
    /\ pc = "alias"
    /\ stable_branch_raises(targets)
    /\ pc' = Abort
    /\ failure' = "IndexError"
    /\ UNCHANGED <<origin, originCommit, fsVars, branches, targets, idx, stableCache,
                   steps, processed, histVars>>

\* Whether the step at pc runs an external command in this state.
CommandRuns ==
    \/ pc = "pull" /\ "master" \in dirs
    \/ pc = "tracking" /\ ~branch_name_exists_in_master_repo(local_name(CurrentBranch))
    \/ pc = "sync"
    \/ pc = "venv" /\ virtualenv_path(CurrentBranch) \notin dirs
    \/ pc \in {"install", "build"}

\* The command exits non-zero (or the git operation raises).
CommandFails ==
    /\ CommandRuns
    /\ pc' = Abort
    /\ failure' = "ExternalCommandFailure"
    /\ UNCHANGED <<origin, originCommit, fsVars, branches, targets, idx, stableCache,
                   steps, processed, histVars>>

(***************************************************************************)
(* html/versions.js.                                                       *)
(***************************************************************************)
\* The comprehension without its condition: every target listed.
RECURSIVE AllNamesReversed(_)
AllNamesReversed(ts) ==
    IF Len(ts) = 0 THEN <<>>
    ELSE <<target_dir_name(ts[Len(ts)])>> \o AllNamesReversed(SubSeq(ts, 1, Len(ts) - 1))

\* [branch.target_dir_name for branch in reversed(ts) if branch.should_build()]
RECURSIVE BuildableNamesReversed(_)
BuildableNamesReversed(ts) ==
    IF Len(ts) = 0 THEN <<>>
    ELSE (IF should_build(ts[Len(ts)]) THEN <<target_dir_name(ts[Len(ts)])>> ELSE <<>>)
             \o BuildableNamesReversed(SubSeq(ts, 1, Len(ts) - 1))

\* list.insert(i, x) for i >= 0.
ListInsert(l, i, x) ==
    IF i >= Len(l) THEN Append(l, x)
    ELSE SubSeq(l, 1, i) \o <<x>> \o SubSeq(l, i + 1, Len(l))

version_list(ts) == ListInsert(BuildableNamesReversed(ts), 1, "stable")

\* open(versions_file_name, 'w') needs the directory html to exist.
WriteManifest ==
    /\ pc = "manifest"
    /\ "html" \in dirs
    /\ manifest' = FileWith(version_list(targets))
    /\ pc' = "done"
    /\ UNCHANGED <<origin, originCommit, baseExists, remoteRefs, heads, commitVars,
                   dirs, built, html, branches, targets, idx, stableCache, failure,
                   steps, processed, histVars>>

WriteManifestFails ==
    /\ pc = "manifest"
    /\ "html" \notin dirs
    /\ pc' = Abort
    /\ failure' = "FileNotFoundError"
    /\ UNCHANGED <<origin, originCommit, fsVars, branches, targets, idx, stableCache,
                   steps, processed, histVars>>

\* The steps of the commands.
Commands ==
    \/ Create
    \/ Exit
    \/ UpdateStart
    \/ OpenRepoFails
    \/ PullMaster
    \/ Discover
    \/ SelectTarget
    \/ LoopEnds
    \/ EnsureLocalTracking
    \/ SyncCheckout
    \/ GateOnShouldBuild
    \/ EnsureIsolatedEnvironment
    \/ InstallDependencies
    \/ InvokeBuilder
    \/ PublishOutput
    \/ PublishOutputFails
    \/ PublishStable
    \/ PublishStableFails
    \/ StableBranchRaises
    \/ CommandFails
    \/ WriteManifest
    \/ WriteManifestFails

\* The commands, run against a network remote that gains branches.
Next == AddRemoteRef \/ Commands

Spec == Init /\ [][Next]_vars

(***************************************************************************)
(* The commands run against a network remote whose branches gain commits:  *)
(* the remote holds the trunk and a few version lines from the start.      *)
(***************************************************************************)
InitSync == Init /\ OriginMaster \in origin

NextSync == PushCommit \/ Commands

SpecSync == InitSync /\ [][NextSync]_vars

(***************************************************************************)
(* The commands run against a network remote that may hold two branches of *)
(* the same version line, stable/1.2.x and stable/1.02.x.                  *)
(***************************************************************************)
DuplicatePool == {OriginMaster, Ref_1_2, Ref_1_02}

InitDuplicates ==
    /\ origin \in SUBSET DuplicatePool
    /\ baseExists \in BOOLEAN
    /\ remoteRefs = {}
    /\ heads = {}
    /\ dirs = {}
    /\ built = <<>>
    /\ html = <<>>
    /\ manifest = NoFile
    /\ pc = "idle"
    /\ branches = None
    /\ targets = <<>>
    /\ idx = 0
    /\ stableCache = Unresolved
    /\ failure = "none"
    /\ steps = <<>>
    /\ processed = <<>>
    /\ runs = 0
    /\ cloneCount = 0
    /\ originCommit = [r \in DuplicatePool |-> 0]
    /\ refCommit = <<>>
    /\ headCommit = <<>>
    /\ checkoutCommit = <<>>
    /\ clones = <<>>
    /\ headsCreated = <<>>
    /\ copyFailed = FALSE

SpecDuplicates == InitDuplicates /\ [][Commands]_vars


(***************************************************************************)
(* Discovery alone: an initialised base directory whose trunk repository   *)
(* holds any few of the ref names of DiscoveryPool, and the start of an    *)
(* update up to the first use of remote_branches.                          *)
(***************************************************************************)
InitDiscovery ==
    /\ origin \in {o \in SUBSET DiscoveryPool : Cardinality(o) <= MaxDiscoveryRefs}
    /\ baseExists = TRUE
    /\ remoteRefs = origin
    /\ heads = IF OriginMaster \in origin THEN {"master"} ELSE {}
    /\ dirs = {"master"}
    /\ built = <<>>
    /\ html = <<>>
    /\ manifest = NoFile
    /\ pc = "idle"
    /\ branches = None
    /\ targets = <<>>
    /\ idx = 0
    /\ stableCache = Unresolved
    /\ failure = "none"
    /\ steps = <<>>
    /\ processed = <<>>
    /\ runs = 0
    /\ cloneCount = 1
    /\ originCommit = [r \in DiscoveryPool |-> 0]
    /\ refCommit = [r \in origin |-> 0]
    /\ headCommit = [h \in (IF OriginMaster \in origin THEN {"master"} ELSE {}) |-> 0]
    /\ checkoutCommit = <<>>
    /\ clones = <<>>
    /\ headsCreated = <<>>
    /\ copyFailed = FALSE

NextDiscovery == UpdateStart \/ PullMaster \/ Discover

SpecDiscovery == InitDiscovery /\ [][NextDiscovery]_vars

(***************************************************************************)
(* Properties.                                                             *)
(***************************************************************************)
\* remote_branches has been computed in the running update.
Discovered == pc \notin {"idle", "pull", "discover"} /\ Len(targets) > 0

\* a comes before or with b in the numeric order of (major, minor).
NumericallyOrdered(a, b) ==
    a.version[1] < b.version[1]
        \/ (a.version[1] = b.version[1] /\ a.version[2] <= b.version[2])

\* C1: whenever the remote refs hold origin/master, discovery returns the version
\* targets in ascending numeric order of (major, minor), major and minor compared
\* as integers (1.2, 1.9, 1.10), and the trunk target as the last element.
C1_SortedNumericallyTrunkLast ==
    Discovered =>
        /\ targets[Len(targets)].kind = "master"
        /\ \A i \in 1..(Len(targets) - 1) : targets[i].kind = "version"
        /\ \A i, j \in 1..(Len(targets) - 1) :
              i < j => NumericallyOrdered(targets[i], targets[j])
        /\ \A r \in remoteRefs :
              (r # OriginMaster /\ StableRefMatch(r) # NoMatch) =>
                  \E i \in 1..(Len(targets) - 1) : targets[i].remote_head = r

\* The refs stable/1.9.x, stable/1.10.x, stable/1.2.x and the trunk were discovered
\* as 1.2, 1.9, 1.10, trunk.
C1_Witness ==
    /\ Discovered
    /\ remoteRefs = {OriginMaster, Ref_1_2, Ref_1_9, Ref_1_10}
    /\ Len(targets) = 4
    /\ targets[1].version = <<1, 2>>
    /\ targets[2].version = <<1, 9>>
    /\ targets[3].version = <<1, 10>>
    /\ targets[4].kind = "master"


\* The running update is inside branch.update of the branch at idx.
InPipeline ==
    pc \in {"tracking", "sync", "gate", "venv", "install", "build", "publish", "alias"}

\* A version target below 0.4.
BelowFloor(b) ==
    b.kind = "version"
        /\ (b.version[1] < 0 \/ (b.version[1] = 0 /\ b.version[2] < 4))

\* The non-trunk target at i has the greatest (major, minor) of the version lines.
IsGreatestVersion(ts, i) ==
    /\ i \in 1..Len(ts)
    /\ ts[i].kind = "version"
    /\ \A j \in 1..Len(ts) : ts[j].kind = "version" => NumericallyOrdered(ts[j], ts[i])

\* Whenever 'stable' has been resolved it is the greatest version line, and the
\* last target, which 'latest' resolves to, is the trunk.
AliasesResolvedFromDiscovery ==
    Discovered =>
        /\ stableCache # Unresolved => IsGreatestVersion(targets, stableCache)
        /\ targets[master_branch(targets)].kind = "master"

\* C2: in every update whose discovery holds the trunk, the alias 'stable' always
\* resolves to the non-trunk target with the greatest (major, minor) of that run's
\* discovery (so it moves when a greater line appears between runs) and 'latest'
\* to the trunk: resolving 'stable' never fails and never yields another target.
C2_StableResolvesToGreatest ==
    /\ AliasesResolvedFromDiscovery
    /\ Discovered => failure # "IndexError"


\* What the selector asks for: no selector, the version string, 'stable' for the
\* greatest version line, 'latest' for the trunk.
AskedFor(sel, ts, i) ==
    \/ sel = None
    \/ version_string(ts[i]) \in sel.tokens
    \/ "stable" \in sel.tokens /\ IsGreatestVersion(ts, i)
    \/ "latest" \in sel.tokens /\ ts[i].kind = "master"

\* The positions in 1..n of the targets asked for, in discovery order.
RECURSIVE AskedPositions(_, _, _)
AskedPositions(sel, ts, n) ==
    IF n = 0 THEN <<>>
    ELSE AskedPositions(sel, ts, n - 1)
             \o (IF AskedFor(sel, ts, n) THEN <<n>> ELSE <<>>)

IsPrefix(s, t) == Len(s) <= Len(t) /\ s = SubSeq(t, 1, Len(s))

\* C3: the targets whose pipeline an update runs are exactly those the selector
\* asks for (no selector, or the version string in it, or 'stable' in it and the
\* target is the stable alias, or 'latest' in it and the target is the trunk), one
\* at a time in discovery order: the pipelines begun are always the first of those
\* asked for, all of them once the loop is over, and the pipeline that is running
\* is that of the last one begun.
C3_SelectedInDiscoveryOrder ==
    Discovered =>
        /\ IsPrefix(processed, AskedPositions(branches, targets, Len(targets)))
        /\ pc \in {"manifest", "done"} =>
              processed = AskedPositions(branches, targets, Len(targets))
        /\ InPipeline => Len(processed) > 0 /\ processed[Len(processed)] = idx
        /\ pc = "loop" => \A k \in 1..Len(processed) : processed[k] < idx
        /\ pc = "loop" =>
              processed = AskedPositions(branches, targets, idx - 1)

\* stable/1.2.x, stable/1.10.x and the trunk with the selector ['stable']: the run
\* ended having built exactly the 1.10 target.
C3_Witness ==
    /\ pc = "done"
    /\ branches = SelectorOf({"stable"})
    /\ Len(targets) = 3
    /\ targets[1].version = <<1, 2>>
    /\ targets[2].version = <<1, 10>>
    /\ processed = <<2>>

\* What the processing of a target below the floor may touch.
OnlyTrackingAndCheckoutTouched ==
    /\ html' = html
    /\ built' = built
    /\ manifest' = manifest
    /\ dirs' \subseteq dirs \cup {path(CurrentBranch)}
    /\ heads' \subseteq heads \cup {local_name(CurrentBranch)}

\* C4: a version target below (0, 4) never reaches EnsureIsolatedEnvironment,
\* InstallDependencies, InvokeBuilder or PublishOutput: its virtualenv, build
\* output and published directory never exist, its processing touches only its
\* local tracking branch and its checkout (not html/en/stable either), and every
\* target at or above (0, 4), and the trunk, passes the gate.
C4_BelowFloorInert ==
    /\ [](InPipeline /\ BelowFloor(CurrentBranch) => pc \in {"tracking", "sync", "gate"})
    /\ [](\A i \in 1..Len(targets) :
             BelowFloor(targets[i]) =>
                 /\ virtualenv_path(targets[i]) \notin dirs
                 /\ path(targets[i]) \notin DOMAIN built
                 /\ target_dir_name(targets[i]) \notin DOMAIN html)
    /\ [][InPipeline /\ BelowFloor(CurrentBranch) => OnlyTrackingAndCheckoutTouched]_vars
    /\ [][pc = "gate" /\ ~BelowFloor(CurrentBranch) => pc' = "venv"]_vars

\* A run that processed stable/0.3.x (tracking branch and checkout made) and took
\* stable/0.4.x through the gate to its published directory.
C4_Witness ==
    /\ pc = "done"
    /\ Len(targets) = 3
    /\ targets[1].version = <<0, 3>>
    /\ targets[2].version = <<0, 4>>
    /\ processed = <<1, 2, 3>>
    /\ "0.3" \in dirs
    /\ "stable/0.3.x" \in heads
    /\ "v0.4" \in DOMAIN html


PipelineOrder ==
    <<"EnsureLocalTracking", "SyncCheckout", "GateOnShouldBuild",
      "EnsureIsolatedEnvironment", "InstallDependencies", "InvokeBuilder",
      "PublishOutput">>

\* The number in PipelineOrder of the step a position is about to run.
StepNumber(position) ==
    CASE position = "tracking" -> 1
      [] position = "sync" -> 2
      [] position = "gate" -> 3
      [] position = "venv" -> 4
      [] position = "install" -> 5
      [] position = "build" -> 6
      [] position = "publish" -> 7
      [] position = "alias" -> 8

\* The branch whose pipeline was begun last in the running update.
LastBegun == targets[processed[Len(processed)]]

\* The files of a directory of a tree, as a sequence of at most one set.
DirOf(h, d) == IF d \in DOMAIN h THEN <<h[d]>> ELSE <<>>

\* C5: within the processing of one version target the steps happen in the order
\* EnsureLocalTracking, SyncCheckout, GateOnShouldBuild, EnsureIsolatedEnvironment,
\* InstallDependencies, InvokeBuilder, PublishOutput, each starting only when all
\* the earlier ones have completed in this processing: the published directory is
\* replaced only after the builder succeeded, and the builder runs only after the
\* install succeeded.
C5_StepsInStrictOrder ==
    /\ [](Discovered /\ Len(processed) > 0 /\ LastBegun.kind = "version" =>
             /\ IsPrefix(steps, PipelineOrder)
             /\ InPipeline => Len(steps) = StepNumber(pc) - 1)
    /\ [][InPipeline /\ CurrentBranch.kind = "version"
             /\ DirOf(html', target_dir_name(CurrentBranch))
                    # DirOf(html, target_dir_name(CurrentBranch))
          => IsPrefix(SubSeq(PipelineOrder, 1, 6), steps)]_vars
    /\ [][InPipeline /\ CurrentBranch.kind = "version"
             /\ DirOf(built', path(CurrentBranch)) # DirOf(built, path(CurrentBranch))
          => IsPrefix(SubSeq(PipelineOrder, 1, 5), steps)]_vars

\* A version target has gone through all seven steps.
C5_Witness ==
    /\ Discovered
    /\ Len(processed) > 0
    /\ LastBegun.kind = "version"
    /\ steps = PipelineOrder

\* C6: when an external command fails during an update the failure propagates at
\* once: the command is over, no step of the failing target or of a later target
\* runs, nothing on disk changes any more in that run (html/versions.js is not
\* rewritten), and no step is run again.
C6_FailureAbortsRun ==
    /\ [](failure # "none" => pc = "failed")
    /\ [][failure # "none" => UNCHANGED fsVars]_vars
    /\ [][failure # "none" /\ failure' # "none" => UNCHANGED runVars]_vars
    /\ [][failure # "none" /\ failure' = "none" => pc' = "idle"]_vars

\* The install of the first of three selected targets failed: the run is over with
\* two targets never begun and no manifest written.
C6_Witness ==
    /\ pc = "failed"
    /\ failure = "ExternalCommandFailure"
    /\ branches = None
    /\ Len(targets) = 3
    /\ processed = <<1>>
    /\ Len(steps) = 4
    /\ manifest = NoFile

\* C7: right after a target's PublishOutput step has succeeded its published
\* directory html/en/<target_dir_name> holds exactly the files of its build output;
\* no file that was there before and is not in the build output survives.
C7_PublishedEqualsBuildOutput ==
    pc = "alias" =>
        /\ target_dir_name(CurrentBranch) \in DOMAIN html
        /\ html[target_dir_name(CurrentBranch)] = built[path(CurrentBranch)]

\* A second publish of the stable target whose build output lost a file: the alias
\* directory still holds the two files of the first publish, the target's own
\* directory only the one of the new build.
C7_Witness ==
    /\ pc = "alias"
    /\ runs = 2
    /\ idx = stable_branch(targets)
    /\ DirOf(html, "stable") = <<{1, 2}>>
    /\ html[target_dir_name(CurrentBranch)] = {1}

\* C8: when the target that reaches PublishOutput is the stable alias, html/en/stable
\* is replaced by a copy of the same build output, so that right after the step it
\* equals html/en/v<M.N>; the processing of any other target never creates, removes
\* or modifies html/en/stable.
C8_StableAliasCopy ==
    /\ [][pc = "alias" /\ pc' = "loop" /\ IsGreatestVersion(targets, idx)
          => /\ DirOf(html', "stable") = <<built[path(CurrentBranch)]>>
             /\ DirOf(html', "stable") = DirOf(html', target_dir_name(CurrentBranch))]_vars
    /\ [][DirOf(html', "stable") # DirOf(html, "stable")
          => pc = "alias" /\ IsGreatestVersion(targets, idx)]_vars

\* The stable target 1.10 has just been published: html/en/stable and html/en/v1.10
\* hold the same files, after the target 1.2, which left no html/en/stable.
C8_Witness ==
    /\ pc = "loop"
    /\ Len(targets) = 3
    /\ targets[2].version = <<1, 10>>
    /\ processed = <<1, 2>>
    /\ idx = 3
    /\ "v1.2" \in DOMAIN html
    /\ DirOf(html, "stable") = DirOf(html, "v1.10")
    /\ DirOf(html, "stable") # <<>>


\* The directory names of the targets 1..n that are not below the floor, the last
\* discovered first.
RECURSIVE NewestFirstNames(_, _)
NewestFirstNames(ts, n) ==
    IF n = 0 THEN <<>>
    ELSE (IF BelowFloor(ts[n]) THEN <<>> ELSE <<target_dir_name(ts[n])>>)
             \o NewestFirstNames(ts, n - 1)

\* Those names with 'stable' as the second entry.
ExpectedManifest(ts) ==
    LET names == NewestFirstNames(ts, Len(ts))
    IN  <<Head(names), "stable">> \o Tail(names)

\* The running update has gone through all of its targets.
AllSelectedProcessed == Discovered /\ idx > Len(targets)

\* An update that returns has written the manifest the claim describes.
ManifestWrittenWhenDone ==
    pc = "done" /\ Discovered => manifest = FileWith(ExpectedManifest(targets))

\* C9: at the end of every update run in which all selected targets were processed,
\* whatever the selector and the previous content, html/versions.js lists exactly
\* the directory names of the discovered targets with should_build true, newest
\* first, with 'stable' as the second entry.
C9_ManifestRewrittenEveryRun ==
    AllSelectedProcessed /\ Finished =>
        manifest = FileWith(ExpectedManifest(targets))

\* C10: Environment.create on a path that exists clones nothing, creates nothing,
\* changes nothing and returns without error; the trunk is cloned only when the
\* path did not exist, so repeated init commands clone at most once.
C10_CreateIdempotent ==
    /\ [](cloneCount <= 1)
    /\ [][pc = "idle" /\ pc' \in {"init_skipped", "init_cloned", "init_failed"}
             /\ baseExists
          => pc' = "init_skipped" /\ UNCHANGED <<fsVars, cloneCount>>]_vars
    /\ [][cloneCount' # cloneCount => ~baseExists /\ baseExists']_vars

\* An init on the path of an environment that an update has already built into:
\* skipped, with the one clone of the first init.
C10_Witness ==
    /\ pc = "init_skipped"
    /\ cloneCount = 1
    /\ runs >= 1
    /\ "latest" \in DOMAIN html

\* The selector of the running update is given and asks for none of the targets.
SelectorMatchesNothing ==
    branches # None /\ AskedPositions(branches, targets, Len(targets)) = <<>>

\* C11: an update whose selector tokens match no discovered target is not an
\* error: whatever earlier runs left in the base directory, it returns without
\* raising, runs no target's pipeline and leaves the published directories as
\* they were.
C11_SelectorMissIsNotAnError ==
    /\ [](Discovered /\ SelectorMatchesNothing /\ Finished =>
             pc = "done" /\ failure = "none")
    /\ [](Discovered /\ SelectorMatchesNothing => processed = <<>>)
    /\ [][Discovered /\ SelectorMatchesNothing => html' = html]_vars

\* The places in a name where a major version of digits ends so that the name is
\* origin/stable/<major>.<minor>.x with digits, literal dots and a final 'x'.
StrictSplits(name) ==
    LET p == Len(OriginStablePrefix)
        n == Len(name)
    IN  IF n < p + 5 \/ SubSeq(name, 1, p) # OriginStablePrefix THEN {}
        ELSE {a \in 1..(n - p - 4) :
                 /\ AllDigits(SubSeq(name, p + 1, p + a))
                 /\ name[p + a + 1] = "."
                 /\ AllDigits(SubSeq(name, p + a + 2, n - 2))
                 /\ name[n - 1] = "."
                 /\ name[n] = "x"}

IsStrictStableName(name) == StrictSplits(name) # {}

\* (<major>, <minor>) of a name of that form.
StrictVersion(name) ==
    LET p == Len(OriginStablePrefix)
        a == CHOOSE s \in StrictSplits(name) : TRUE
    IN  <<ParseInt(SubSeq(name, p + 1, p + a)),
          ParseInt(SubSeq(name, p + a + 2, Len(name) - 2))>>

\* C12: discovery makes a version target of a remote ref if and only if its name
\* is exactly origin/stable/<major>.<minor>.x (digits, literal dots, a literal
\* final 'x'), with the version (<major>, <minor>); every other name is skipped.
C12_StrictPatternOnly ==
    Discovered =>
        /\ \A i \in 1..(Len(targets) - 1) :
              /\ IsStrictStableName(targets[i].remote_head)
              /\ targets[i].version = StrictVersion(targets[i].remote_head)
        /\ \A r \in remoteRefs :
              IsStrictStableName(r) =>
                  \E i \in 1..(Len(targets) - 1) : targets[i].remote_head = r

\* The version lines the remote refs hold: (major, minor) of the matching names.
VersionLines(refs) ==
    {<<ParseInt(StableRefMatch(r)[1]), ParseInt(StableRefMatch(r)[2])>> :
        r \in {s \in refs : s # OriginMaster /\ StableRefMatch(s) # NoMatch}}

\* C13: the discovered list holds exactly one target per distinct (major, minor)
\* version line, so no two targets share a version string, a checkout path, a
\* virtualenv path or a published directory, and it holds exactly one trunk target.
C13_OneTargetPerVersionLine ==
    Discovered =>
        /\ \A v \in VersionLines(remoteRefs) :
              Cardinality({i \in 1..Len(targets) :
                              targets[i].kind = "version" /\ targets[i].version = v}) = 1
        /\ \A i, j \in 1..Len(targets) :
              i # j =>
                  /\ version_string(targets[i]) # version_string(targets[j])
                  /\ path(targets[i]) # path(targets[j])
                  /\ virtualenv_path(targets[i]) # virtualenv_path(targets[j])
                  /\ target_dir_name(targets[i]) # target_dir_name(targets[j])
        /\ Cardinality({i \in 1..Len(targets) : targets[i].kind = "master"}) = 1

\* An update command is running or has just ended.
UpdateRunning == pc \notin {"idle", "init_skipped", "init_cloned", "init_failed"}

\* C14: when discovery finds no remote ref named origin/master the update fails
\* before any target is processed: no list of targets, no pipeline step, and
\* nothing but the pull of the trunk repository touches the disk (no tracking
\* branch, checkout, virtualenv, build output, published directory or manifest).
C14_NoTrunkFailsBeforeProcessing ==
    /\ [](UpdateRunning /\ pc # "pull" /\ OriginMaster \notin remoteRefs =>
             /\ pc \in {"discover", "failed"}
             /\ targets = <<>>
             /\ processed = <<>>
             /\ steps = <<>>)
    /\ [][pc = "discover" /\ OriginMaster \notin remoteRefs =>
             pc' = "failed" /\ failure' = "no master branch found"]_vars
    /\ [][UpdateRunning /\ OriginMaster \notin remoteRefs' =>
             UNCHANGED <<heads, dirs, built, html, manifest>>]_vars

\* The remote holds stable/1.2.x but no master: the update has failed in
\* discovery, with no tracking branch, no checkout and no manifest.
C14_Witness ==
    /\ pc = "failed"
    /\ failure = "no master branch found"
    /\ Ref_1_2 \in remoteRefs
    /\ heads = {}
    /\ dirs = {"master"}
    /\ manifest = NoFile

\* C15: replacing a published directory is atomic: every step of an update run,
\* a copy that fails part-way included, leaves each directory that was published
\* either with its complete previous content or with the complete new build
\* output, never missing and never partially copied.
C15_ReplaceIsAtomic ==
    [][\A d \in DOMAIN html :
          \/ DirOf(html', d) = DirOf(html, d)
          \/ /\ pc \in {"publish", "alias"}
             /\ DirOf(html', d) = <<built[path(CurrentBranch)]>>]_vars

\* C15 as amended: the replacement is remove-then-copy.  One that completes
\* leaves the directory with exactly the complete new build output; one that
\* fails part-way aborts the run and leaves the directory missing, or with part
\* of its previous content, or with part of the new build output.
C15_ReplaceIsRemoveThenCopy ==
    [][\A d \in DOMAIN html :
          \/ DirOf(html', d) = DirOf(html, d)
          \/ /\ pc \in {"publish", "alias"}
             /\ failure' = "none"
             /\ DirOf(html', d) = <<built[path(CurrentBranch)]>>
          \/ /\ pc \in {"publish", "alias"}
             /\ pc' = "failed"
             /\ \/ d \notin DOMAIN html'
                \/ html'[d] \subseteq html[d]
                \/ html'[d] \subseteq built[path(CurrentBranch)]]_vars

\* The 1.2 line was published as the stable target by an earlier run; in this run
\* its publish step failed and left html/en/v1.2 missing.
C15_Witness ==
    /\ pc = "failed"
    /\ failure = "ExternalCommandFailure"
    /\ runs = 2
    /\ Len(targets) = 2
    /\ targets[1].version = <<1, 2>>
    /\ processed = <<1>>
    /\ Len(steps) = 6
    /\ "stable" \in DOMAIN html
    /\ "v1.2" \notin DOMAIN html

\* The SyncCheckout step of the target at idx completes.
SyncCheckoutStep == pc = "sync" /\ pc' = "gate"

\* C16: across update runs SyncCheckout clones a version target's checkout only
\* when its directory does not exist, and then from the trunk repository at the
\* target's local branch (its commit is that of the trunk repository's local
\* head, and the source location is not cloned again); when the directory exists
\* it only pulls.  So every version line is cloned at most once, and its local
\* tracking branch is created at most once: never when a head of that name exists.
C16_CloneOnceFromTrunk ==
    /\ [](\A c \in DOMAIN clones : clones[c] <= 1)
    /\ [](\A h \in DOMAIN headsCreated : headsCreated[h] <= 1)
    /\ [][SyncCheckoutStep =>
             /\ cloneCount' = cloneCount
             /\ path(CurrentBranch) \in dirs => clones' = clones /\ dirs' = dirs
             /\ path(CurrentBranch) \notin dirs =>
                   /\ clones' # clones
                   /\ dirs' = dirs \cup {path(CurrentBranch)}
                   /\ checkoutCommit'[path(CurrentBranch)] =
                          headCommit[local_name(CurrentBranch)]]_vars
    /\ [][pc = "tracking" /\ local_name(CurrentBranch) \in heads =>
             UNCHANGED <<heads, headCommit, headsCreated>>]_vars
    /\ [][UpdateRunning => cloneCount' = cloneCount]_vars

\* The second run has synchronised the checkout of 1.2, whose virtualenv the first
\* run had made: one clone and one creation of stable/1.2.x over the two runs.
C16_Witness ==
    /\ runs = 2
    /\ pc = "gate"
    /\ CurrentBranch.kind = "version"
    /\ CurrentBranch.version = <<1, 2>>
    /\ "venv/1.2" \in dirs
    /\ clones["1.2"] = 1
    /\ headsCreated["stable/1.2.x"] = 1

\* C17: when an update processes a version target whose checkout directory already
\* exists, SyncCheckout leaves the checkout at the commit the remote's
\* stable/<M>.<N>.x line pointed to when this run pulled the trunk remote, so that
\* commits added to the line between two runs reach the checkout in the later run.
C17_PullReachesRemoteCommit ==
    [][SyncCheckoutStep /\ path(CurrentBranch) \in dirs =>
          checkoutCommit'[path(CurrentBranch)] = refCommit[CurrentBranch.remote_head]]_vars

\* The names html/versions.js lists.
Listed == IF manifest = NoFile THEN {} ELSE {manifest[1][k] : k \in 1..Len(manifest[1])}

\* C18: at the end of each update that completes without error every name listed
\* in html/versions.js (each version directory name, 'latest' and 'stable') is the
\* name of a directory that exists under html/en.
C18_ManifestListsPublished ==
    pc = "done" => Listed \subseteq DOMAIN html

\* C18 as amended: the manifest lists the buildable targets, published or not.  At
\* the end of each update that completes without error every listed name is
\* 'stable' or the directory name of a discovered target at or above the floor;
\* the directories of the targets this run processed exist under html/en, and so
\* does html/en/stable when the run processed a buildable stable target.
C18_ManifestListsBuildable ==
    pc = "done" =>
        /\ \A n \in Listed :
              \/ n = "stable"
              \/ \E i \in 1..Len(targets) :
                    ~BelowFloor(targets[i]) /\ target_dir_name(targets[i]) = n
        /\ \A k \in 1..Len(processed) :
              ~BelowFloor(targets[processed[k]]) =>
                  /\ target_dir_name(targets[processed[k]]) \in Listed
                  /\ target_dir_name(targets[processed[k]]) \in DOMAIN html
                  /\ IsGreatestVersion(targets, processed[k]) => "stable" \in DOMAIN html

\* The first update of an environment with the selector ['1.2']: the manifest
\* lists 'latest', 'stable' and 'v1.10', of which html/en holds no directory; only
\* 'v1.2' is published.
C18_Witness ==
    /\ pc = "done"
    /\ branches = SelectorOf({"1.2"})
    /\ manifest = FileWith(<<"latest", "stable", "v1.10", "v1.2">>)
    /\ DOMAIN html = {"v1.2"}

RunWithSelector == UpdateRunning /\ branches # None

\* A step leaves the version target t as it was: its local tracking branch, its
\* checkout (directory, commit and build output), its virtualenv and its
\* published directory.
Untouched(t) ==
    /\ (local_name(t) \in heads') = (local_name(t) \in heads)
    /\ DirOf(headCommit', local_name(t)) = DirOf(headCommit, local_name(t))
    /\ (path(t) \in dirs') = (path(t) \in dirs)
    /\ DirOf(checkoutCommit', path(t)) = DirOf(checkoutCommit, path(t))
    /\ DirOf(built', path(t)) = DirOf(built, path(t))
    /\ (virtualenv_path(t) \in dirs') = (virtualenv_path(t) \in dirs)
    /\ DirOf(html', target_dir_name(t)) = DirOf(html, target_dir_name(t))

\* The selector selects the target at i: by its version string, or by 'stable'
\* when it is the resolved stable target (the second from last), or by 'latest'
\* when it is the trunk.
SelectedBy(sel, ts, i) ==
    \/ version_string(ts[i]) \in sel.tokens
    \/ "stable" \in sel.tokens /\ i = Len(ts) - 1
    \/ "latest" \in sel.tokens /\ i = Len(ts)

\* The selector of the running update selects the stable target.
StableSelected ==
    Len(targets) >= 2 /\ SelectedBy(branches, targets, Len(targets) - 1)

\* C20: an update with an explicit selector leaves every version target it does
\* not select untouched (no local tracking branch created; checkout, virtualenv
\* and html/en/v<M.N> unchanged), and html/en/stable unchanged unless the stable
\* target is selected; before the targets are known only the trunk repository
\* changes.
C20_NonSelectedUntouched ==
    /\ [][RunWithSelector /\ ~Discovered =>
             UNCHANGED <<dirs, built, html, checkoutCommit, manifest>>
                 /\ heads' \subseteq heads \cup {"master"}]_vars
    /\ [][RunWithSelector /\ Discovered =>
             \A i \in 1..Len(targets) :
                 targets[i].kind = "version" /\ ~SelectedBy(branches, targets, i) =>
                     Untouched(targets[i])]_vars
    /\ [][RunWithSelector /\ Discovered /\ ~StableSelected =>
             DirOf(html', "stable") = DirOf(html, "stable")]_vars

====
